---- MODULE Spec2Model ----
(***************************************************************************)
(* Bookstore cart store (zustand + persist), checkout submission and the   *)
(* server-side createOrder controller.                                     *)
(*                                                                         *)
(* Money is counted in hundredths of the currency unit, so the server's    *)
(* tolerance of 0.01 is the integer 1.                                     *)
(***************************************************************************)
EXTENDS Integers, Sequences, FiniteSets, TLC

\* ---------------------------------------------------------------- bounds
MaxQty == 2
MaxItems == 2
MaxReqQty == 2
MaxOrders == 2

\* the server's tolerance of 0.01, in hundredths
Tolerance == 1

\* ------------------------------------------------------------- cart data
\* "" stands for an absent (undefined) or empty identifier: both are falsy
NoId == ""

BookIds == {"B1", "B2"}

\* Book objects the UI can hand to the cart (frontend Book type)
ClientBooks ==
  { [_id |-> "B1", id |-> NoId, price |-> 2],
    [_id |-> NoId, id |-> "B2", price |-> 3],
    [_id |-> NoId, id |-> NoId, price |-> 5] }

\* placeholder carried by a persisted entry whose book is missing
NoBook == [_id |-> NoId, id |-> NoId, price |-> 0]

\* book._id || book.id
ResolveId(book) == IF book._id # NoId THEN book._id ELSE book.id

QtyArgs == (0 - MaxQty) .. MaxQty

VARIABLES items, totalItems, totalPrice, storage, op,
          catalog, orders, readLog, srv, resp,
          page, isSubmitting, errors, sub, link, navTimer, formData,
          peer, otherTab

cartVars == <<items, totalItems, totalPrice, storage, op>>

RECURSIVE SumQuantity(_)
SumQuantity(s) ==
  IF s = <<>> THEN 0 ELSE Head(s).quantity + SumQuantity(Tail(s))

RECURSIVE SumPrice(_)
SumPrice(s) ==
  IF s = <<>> THEN 0
  ELSE Head(s).book.price * Head(s).quantity + SumPrice(Tail(s))

calculateTotals(s) ==
  [totalItems |-> SumQuantity(s), totalPrice |-> SumPrice(s)]

\* item.book && (item.book._id || item.book.id)
IsValidItem(item) == item.hasBook /\ ResolveId(item.book) # NoId

InCart(s, bookId) == \E i \in 1..Len(s) : ResolveId(s[i].book) = bookId

NoDuplicateIds(s) ==
  \A i, j \in 1..Len(s) :
    ResolveId(s[i].book) = ResolveId(s[j].book) => i = j

\* The state an operation leaves: set({items, totalItems, totalPrice}) and
\* whether set was called at all (persist writes storage on every set).
CartState(s, ti, tp, wrote) ==
  [items |-> s, totalItems |-> ti, totalPrice |-> tp, wrote |-> wrote]

Current == CartState(items, totalItems, totalPrice, FALSE)

SetItems(s) ==
  CartState(s, calculateTotals(s).totalItems, calculateTotals(s).totalPrice, TRUE)


InitialCart == CartState(<<>>, 0, 0, FALSE)

MergeQuantity(s, bookId, quantity) ==
  [i \in 1..Len(s) |->
     IF ResolveId(s[i].book) = bookId
     THEN [s[i] EXCEPT !.quantity = s[i].quantity + quantity]
     ELSE s[i]]

addToCart_AlwaysAppend(st, book, quantity) ==
  IF ResolveId(book) = NoId THEN st
  ELSE SetItems(Append(st.items,
           [hasBook |-> TRUE, book |-> book, quantity |-> quantity]))

addToCart_Prepend(st, book, quantity) ==
  LET bookId == ResolveId(book) IN
  IF bookId = NoId THEN st
  ELSE IF InCart(st.items, bookId)
       THEN SetItems(MergeQuantity(st.items, bookId, quantity))
       ELSE SetItems(<<[hasBook |-> TRUE, book |-> book, quantity |-> quantity]>>
                       \o st.items)

addToCart(st, book, quantity) ==
  LET bookId == ResolveId(book) IN
  IF bookId = NoId THEN st
  ELSE IF InCart(st.items, bookId)
       THEN SetItems(MergeQuantity(st.items, bookId, quantity))
       ELSE SetItems(Append(st.items,
                [hasBook |-> TRUE, book |-> book, quantity |-> quantity]))

OtherThan(bookId, item) == ResolveId(item.book) # bookId

removeFromCart_AlwaysSet(st, bookId) ==
  SetItems(SelectSeq(st.items, LAMBDA item : OtherThan(bookId, item)))

removeFromCart(st, bookId) ==
  IF ~InCart(st.items, bookId) THEN st
  ELSE SetItems(SelectSeq(st.items, LAMBDA item : OtherThan(bookId, item)))

SetQuantity(s, bookId, quantity) ==
  [i \in 1..Len(s) |->
     IF ResolveId(s[i].book) = bookId
     THEN [s[i] EXCEPT !.quantity = quantity]
     ELSE s[i]]

updateQuantity_OnlyNegative(st, bookId, quantity) ==
  IF quantity < 0 THEN removeFromCart(st, bookId)
  ELSE SetItems(SetQuantity(st.items, bookId, quantity))

updateQuantity(st, bookId, quantity) ==
  IF quantity <= 0 THEN removeFromCart(st, bookId)
  ELSE SetItems(SetQuantity(st.items, bookId, quantity))

clearCart(st) == CartState(<<>>, 0, 0, TRUE)

cleanupCart(st) ==
  LET validItems == SelectSeq(st.items, IsValidItem) IN
  IF Len(validItems) # Len(st.items) THEN SetItems(validItems) ELSE st

\* persist option partialize: only the valid entries, only book and quantity
partialize(s) ==
  LET kept == SelectSeq(s, IsValidItem) IN
  [i \in 1..Len(kept) |->
     [hasBook |-> TRUE, book |-> kept[i].book, quantity |-> kept[i].quantity]]

\* persist hydration: the stored partial state is merged over the freshly
\* constructed store, then the onRehydrateStorage callback runs cleanupCart
merge(stored) ==
  IF stored.present THEN CartState(stored.items, 0, 0, FALSE) ELSE InitialCart

rehydrate(stored) == cleanupCart(merge(stored))

NoOp == [name |-> "init", id |-> NoId, quantity |-> 0, found |-> FALSE]

Call(name, id, quantity) ==
  [name |-> name, id |-> id, quantity |-> quantity,
   found |-> id # NoId /\ InCart(items, id)]

\* set(...) of the store followed by the persist middleware's write
Commit(r, o) ==
  /\ items' = r.items
  /\ totalItems' = r.totalItems
  /\ totalPrice' = r.totalPrice
  /\ storage' = IF r.wrote
                THEN [present |-> TRUE, items |-> partialize(r.items)]
                ELSE storage
  /\ op' = o

QtyInBound(s) == \A i \in 1..Len(s) :
  s[i].quantity >= 0 - MaxQty /\ s[i].quantity <= MaxQty

CartInit ==
  /\ items = <<>>
  /\ totalItems = 0
  /\ totalPrice = 0
  /\ storage = [present |-> FALSE, items |-> <<>>]
  /\ op = NoOp

AddToCartCall(book, quantity) ==
  Commit(addToCart(Current, book, quantity),
         Call("addToCart", ResolveId(book), quantity))

AddToCart ==
  \E book \in ClientBooks, quantity \in QtyArgs :
    /\ QtyInBound(addToCart(Current, book, quantity).items)
    /\ AddToCartCall(book, quantity)

RemoveFromCartCall(bookId) ==
  Commit(removeFromCart(Current, bookId), Call("removeFromCart", bookId, 0))

RemoveFromCart == \E bookId \in BookIds : RemoveFromCartCall(bookId)

UpdateQuantityCall(bookId, quantity) ==
  Commit(updateQuantity(Current, bookId, quantity),
         Call("updateQuantity", bookId, quantity))

UpdateQuantity ==
  \E bookId \in BookIds, quantity \in QtyArgs :
    UpdateQuantityCall(bookId, quantity)

ClearCart == Commit(clearCart(Current), Call("clearCart", NoId, 0))

CleanupCart == Commit(cleanupCart(Current), Call("cleanupCart", NoId, 0))

\* page load: the store is constructed anew and hydrated from localStorage
Rehydrate ==
  Commit(rehydrate(storage), Call("rehydrate", NoId, 0))

\* localStorage damaged or written by an older schema: an entry loses its
\* book or its book's identifiers
CorruptStorage ==
  /\ storage.present
  /\ \E i \in 1..Len(storage.items), kind \in {"nobook", "noid"} :
       storage' = [storage EXCEPT !.items[i] =
         IF kind = "nobook"
         THEN [hasBook |-> FALSE, book |-> NoBook, quantity |-> @.quantity]
         ELSE [@ EXCEPT !.book._id = NoId, !.book.id = NoId]]
  /\ storage' # storage
  /\ UNCHANGED <<items, totalItems, totalPrice, op>>

CartNext ==
  \/ AddToCart
  \/ RemoveFromCart
  \/ UpdateQuantity
  \/ ClearCart
  \/ CleanupCart
  \/ Rehydrate
  \/ CorruptStorage

\* ------------------------------------------------------------ the server
Prices == {2, 3}

\* a well-formed identifier of no book in the catalog
UnknownId == "BX"

IsMongoId(id) == id \in BookIds \cup {UnknownId}

CatalogBook(bookId, price) ==
  [price |-> price, title |-> "title-" \o bookId,
   publisher |-> "publisher-" \o bookId, image |-> "image-" \o bookId]

\* what the client may put in an item besides bookId and quantity
Untrusted == [price |-> 1, text |-> "client"]
ClientPrice == Untrusted.price
ClientText == Untrusted.text

ReqItem(bookId, quantity) ==
  [bookId |-> bookId, quantity |-> quantity, price |-> ClientPrice,
   title |-> ClientText, publisher |-> ClientText, image |-> ClientText]

\* well-formed items, plus one item without bookId and one with quantity 0
ReqItems ==
  {ReqItem(bookId, quantity) :
     bookId \in BookIds \cup {UnknownId}, quantity \in 1..MaxReqQty}
  \cup {ReqItem(NoId, 1), ReqItem("B1", 0)}

ReqItemLists == UNION {[1..n -> ReqItems] : n \in 0..MaxItems}

ClaimedTotals == {3, 4, 5}

\* request bodies a client may post; the last two have an invalid customer
\* and a totalPrice of zero
Bodies ==
  [customerOk : {TRUE}, items : ReqItemLists, totalPrice : ClaimedTotals]
  \cup {[customerOk |-> FALSE, items |-> <<ReqItem("B1", 2)>>, totalPrice |-> 4],
        [customerOk |-> TRUE, items |-> <<ReqItem("B1", 2)>>, totalPrice |-> 0]}

NoBody == [customerOk |-> FALSE, items |-> <<>>, totalPrice |-> 0]

serverVars == <<catalog, orders, readLog, srv, resp>>

Abs(x) == IF x < 0 THEN 0 - x ELSE x

\* validateCreateOrder: the fields express-validator reports
ValidationErrors(b) ==
  (IF b.customerOk THEN {} ELSE {"customer"})
  \cup (IF Len(b.items) >= 1 THEN {} ELSE {"items"})
  \cup (IF \A i \in 1..Len(b.items) :
              b.items[i].bookId # NoId /\ IsMongoId(b.items[i].bookId)
        THEN {} ELSE {"items.bookId"})
  \cup (IF \A i \in 1..Len(b.items) : b.items[i].quantity >= 1
        THEN {} ELSE {"items.quantity"})
  \cup (IF b.totalPrice >= 1 THEN {} ELSE {"totalPrice"})

NoResp ==
  [status |-> 0, success |-> FALSE, error |-> "", calculatedTotal |-> 0,
   providedTotal |-> 0, orderId |-> "", data |-> <<>>]

Reject(status, error) == [NoResp EXCEPT !.status = status, !.error = error]

Idle ==
  [pc |-> "idle", body |-> NoBody, processedItems |-> <<>>,
   calculatedTotal |-> 0, reads |-> <<>>, before |-> 0,
   owner |-> "none", customer |-> "none"]

\* !bookId || !quantity || quantity <= 0
InvalidItem(item) ==
  item.bookId = NoId \/ item.quantity = 0 \/ item.quantity <= 0

\* Book.findById(bookId).lean()
Found(bookId) == bookId \in DOMAIN catalog

ProcessedItem_OneEach(item, book) ==
  [book |-> item.bookId, quantity |-> 1, price |-> book.price,
   title |-> book.title, publisher |-> book.publisher, image |-> book.image]

ProcessedItem(item, book) ==
  [book |-> item.bookId, quantity |-> item.quantity, price |-> book.price,
   title |-> book.title, publisher |-> book.publisher, image |-> book.image]

RECURSIVE LineTotal(_)
LineTotal(lines) ==
  IF lines = <<>> THEN 0
  ELSE Head(lines).price * Head(lines).quantity + LineTotal(Tail(lines))

Finish(r) ==
  /\ srv' = [srv EXCEPT !.pc = "done"]
  /\ resp' = r

AfterItem_RejectAtTolerance(s) ==
  LET k == Len(s.processedItems) IN
  IF k < Len(s.body.items)
  THEN IF InvalidItem(s.body.items[k + 1])
       THEN /\ srv' = [s EXCEPT !.pc = "done"]
            /\ resp' = Reject(400, "Invalid item data")
       ELSE /\ srv' = [s EXCEPT !.pc = "lookup"]
            /\ resp' = NoResp
  ELSE IF Abs(s.calculatedTotal - s.body.totalPrice) >= Tolerance
       THEN /\ srv' = [s EXCEPT !.pc = "done"]
            /\ resp' = [Reject(400, "Total price mismatch") EXCEPT
                          !.calculatedTotal = s.calculatedTotal,
                          !.providedTotal = s.body.totalPrice]
       ELSE /\ srv' = [s EXCEPT !.pc = "save"]
            /\ resp' = NoResp

\* the loop head for the next item, run after item k has been processed:
\* either the item check fails, or the next lookup is issued, or the loop
\* is over and the totals are compared
AfterItem(s) ==
  LET k == Len(s.processedItems) IN
  IF k < Len(s.body.items)
  THEN IF InvalidItem(s.body.items[k + 1])
       THEN /\ srv' = [s EXCEPT !.pc = "done"]
            /\ resp' = Reject(400, "Invalid item data")
       ELSE /\ srv' = [s EXCEPT !.pc = "lookup"]
            /\ resp' = NoResp
  ELSE IF Abs(s.calculatedTotal - s.body.totalPrice) > Tolerance
       THEN /\ srv' = [s EXCEPT !.pc = "done"]
            /\ resp' = [Reject(400, "Total price mismatch") EXCEPT
                          !.calculatedTotal = s.calculatedTotal,
                          !.providedTotal = s.body.totalPrice]
       ELSE /\ srv' = [s EXCEPT !.pc = "save"]
            /\ resp' = NoResp

CreateOrderStart_NoValidation(b) ==
  /\ srv.pc = "idle"
  /\ Len(orders) < MaxOrders
  /\ AfterItem([Idle EXCEPT !.body = b, !.before = Len(orders)])
  /\ UNCHANGED <<catalog, orders, readLog>>

\* POST /api/orders: validation middleware, then createOrder up to its
\* first await
CreateOrderStart(b) ==
  /\ srv.pc = "idle"
  /\ Len(orders) < MaxOrders
  /\ LET s == [Idle EXCEPT !.body = b, !.before = Len(orders)] IN
       IF ValidationErrors(b) # {}
       THEN /\ srv' = [s EXCEPT !.pc = "done"]
            /\ resp' = Reject(400, "Validation failed")
       ELSE IF Len(b.items) = 0
       THEN /\ srv' = [s EXCEPT !.pc = "done"]
            /\ resp' = Reject(400, "Invalid order items")
       ELSE IF b.totalPrice <= 0
       THEN /\ srv' = [s EXCEPT !.pc = "done"]
            /\ resp' = Reject(400, "Invalid total price")
       ELSE AfterItem(s)
  /\ UNCHANGED <<catalog, orders, readLog>>

LookupBook_IgnoreMissing ==
  /\ srv.pc = "lookup"
  /\ LET item == srv.body.items[Len(srv.processedItems) + 1]
         book == IF Found(item.bookId) THEN catalog[item.bookId]
                 ELSE CatalogBook(item.bookId, 0)
     IN  AfterItem([srv EXCEPT
           !.calculatedTotal = @ + book.price * item.quantity,
           !.processedItems = Append(@, ProcessedItem(item, book)),
           !.reads = Append(@, book)])
  /\ UNCHANGED <<catalog, orders, readLog>>

LookupBook_NotFoundIs400 ==
  /\ srv.pc = "lookup"
  /\ LET item == srv.body.items[Len(srv.processedItems) + 1] IN
       IF ~Found(item.bookId)
       THEN Finish(Reject(400, "Book not found"))
       ELSE LET book == catalog[item.bookId] IN
            AfterItem([srv EXCEPT
              !.calculatedTotal = @ + book.price * item.quantity,
              !.processedItems = Append(@, ProcessedItem(item, book)),
              !.reads = Append(@, book)])
  /\ UNCHANGED <<catalog, orders, readLog>>

\* the awaited Book.findById resolves; the loop body runs for that item
LookupBook ==
  /\ srv.pc = "lookup"
  /\ LET item == srv.body.items[Len(srv.processedItems) + 1] IN
       IF ~Found(item.bookId)
       THEN Finish(Reject(404, "Book not found"))
       ELSE LET book == catalog[item.bookId] IN
            AfterItem([srv EXCEPT
              !.calculatedTotal = @ + book.price * item.quantity,
              !.processedItems = Append(@, ProcessedItem(item, book)),
              !.reads = Append(@, book)])
  /\ UNCHANGED <<catalog, orders, readLog>>

OrderIds == {"ORD-1", "ORD-2"}

UsedOrderIds == {orders[i].orderId : i \in 1..Len(orders)}

NewOrder_ClientTotal(orderId, s) ==
  [orderId |-> orderId, items |-> s.processedItems,
   totalPrice |-> s.body.totalPrice, status |-> "pending",
   paymentStatus |-> "pending"]

NewOrder(orderId, s) ==
  [orderId |-> orderId, items |-> s.processedItems,
   totalPrice |-> s.calculatedTotal, status |-> "pending",
   paymentStatus |-> "pending"]

\* new Order(orderData).save(): the pre-save hook generates the orderId; the
\* unique index, schema validation and the database decide the outcome
Save_NoUniqueIndex(orderId, outcome) ==
  /\ srv.pc = "save"
  /\ IF outcome = "ValidationError"
     THEN Finish(Reject(400, "Validation error")) /\ UNCHANGED <<orders, readLog>>
     ELSE IF outcome = "error"
     THEN Finish(Reject(500, "Failed to create order")) /\ UNCHANGED <<orders, readLog>>
     ELSE /\ orders' = Append(orders, NewOrder(orderId, srv))
          /\ readLog' = Append(readLog, srv.reads)
          /\ srv' = [srv EXCEPT !.pc = "notifyOwner"]
          /\ resp' = NoResp
  /\ UNCHANGED catalog

Save_Idempotent(orderId, outcome) ==
  /\ srv.pc = "save"
  /\ IF outcome = "ValidationError"
     THEN Finish(Reject(400, "Validation error")) /\ UNCHANGED <<orders, readLog>>
     ELSE IF outcome = "error"
     THEN Finish(Reject(500, "Failed to create order")) /\ UNCHANGED <<orders, readLog>>
     ELSE IF orderId \in UsedOrderIds
     THEN Finish(Reject(409, "Duplicate order")) /\ UNCHANGED <<orders, readLog>>
     ELSE IF \E k \in 1..Len(orders) :
               /\ orders[k].items = srv.processedItems
               /\ orders[k].totalPrice = srv.calculatedTotal
     THEN /\ srv' = [srv EXCEPT !.pc = "notifyOwner"]
          /\ resp' = NoResp
          /\ UNCHANGED <<orders, readLog>>
     ELSE /\ orders' = Append(orders, NewOrder(orderId, srv))
          /\ readLog' = Append(readLog, srv.reads)
          /\ srv' = [srv EXCEPT !.pc = "notifyOwner"]
          /\ resp' = NoResp
  /\ UNCHANGED catalog

\* order.save() with the orderId its pre-save hook generated: the insert is
\* refused by the unique index when that orderId is already stored
Save(orderId, outcome) ==
  /\ srv.pc = "save"
  /\ IF outcome = "ValidationError"
     THEN Finish(Reject(400, "Validation error")) /\ UNCHANGED <<orders, readLog>>
     ELSE IF outcome = "error"
     THEN Finish(Reject(500, "Failed to create order")) /\ UNCHANGED <<orders, readLog>>
     ELSE IF orderId \in UsedOrderIds
     THEN Finish(Reject(409, "Duplicate order")) /\ UNCHANGED <<orders, readLog>>
     ELSE /\ orders' = Append(orders, NewOrder(orderId, srv))
          /\ readLog' = Append(readLog, srv.reads)
          /\ srv' = [srv EXCEPT !.pc = "notifyOwner"]
          /\ resp' = NoResp
  /\ UNCHANGED catalog

SaveOutcomes == {"saved", "ValidationError", "error"}

SaveOrder == \E orderId \in OrderIds, outcome \in SaveOutcomes : Save(orderId, outcome)

\* the data of the success envelope: the fields of the order it carries
OrderView(order) ==
  [orderId |-> order.orderId, items |-> order.items,
   totalPrice |-> order.totalPrice, status |-> order.status]

Created ==
  [NoResp EXCEPT !.status = 201, !.success = TRUE,
                 !.orderId = orders[Len(orders)].orderId,
                 !.data = <<OrderView(orders[Len(orders)])>>]

\* await sendOrderNotificationToOwner(order) inside the try block
NotifyOwner ==
  /\ srv.pc = "notifyOwner"
  /\ \E sent \in BOOLEAN :
       IF sent
       THEN /\ srv' = [srv EXCEPT !.pc = "notifyCustomer", !.owner = "sent"]
            /\ resp' = NoResp
       ELSE /\ srv' = [srv EXCEPT !.pc = "done", !.owner = "failed"]
            /\ resp' = Created
  /\ UNCHANGED <<catalog, orders, readLog>>

NotifyCustomer_FailureIs500 ==
  /\ srv.pc = "notifyCustomer"
  /\ \E sent \in BOOLEAN :
       /\ srv' = [srv EXCEPT !.pc = "done",
                    !.customer = IF sent THEN "sent" ELSE "failed"]
       /\ resp' = IF sent THEN Created ELSE Reject(500, "Failed to create order")
  /\ UNCHANGED <<catalog, orders, readLog>>

\* await sendOrderConfirmationToCustomer(order), then the 201 response
NotifyCustomer ==
  /\ srv.pc = "notifyCustomer"
  /\ \E sent \in BOOLEAN :
       /\ srv' = [srv EXCEPT !.pc = "done",
                    !.customer = IF sent THEN "sent" ELSE "failed"]
       /\ resp' = Created
  /\ UNCHANGED <<catalog, orders, readLog>>

CatalogUpdate_Cascade ==
  /\ \E bookId \in BookIds, price \in Prices :
       /\ catalog[bookId].price # price
       /\ catalog' = [catalog EXCEPT ![bookId].price = price]
       /\ orders' = [k \in 1..Len(orders) |->
            [orders[k] EXCEPT !.items =
               [i \in 1..Len(@) |->
                  IF @[i].book = bookId THEN [@[i] EXCEPT !.price = price]
                  ELSE @[i]]]]
  /\ UNCHANGED <<readLog, srv, resp>>

\* the catalog is re-seeded or edited in the database: a price changes
CatalogUpdate ==
  /\ \E bookId \in BookIds, price \in Prices :
       /\ catalog[bookId].price # price
       /\ catalog' = [catalog EXCEPT ![bookId].price = price]
  /\ UNCHANGED <<orders, readLog, srv, resp>>

ServerInit ==
  /\ catalog = [bookId \in BookIds |->
                  CatalogBook(bookId, IF bookId = "B1" THEN 2 ELSE 3)]
  /\ orders = <<>>
  /\ readLog = <<>>
  /\ srv = Idle
  /\ resp = NoResp

\* a client posts an arbitrary request body
PostOrder == \E b \in Bodies : CreateOrderStart(b)

\* the response has been sent; the server is ready for the next request
ResponseSent ==
  /\ srv.pc = "done"
  /\ srv' = Idle
  /\ resp' = NoResp
  /\ UNCHANGED <<catalog, orders, readLog>>

\* populate('items.book', 'title publisher image'): the reference of each
\* line is replaced, in the document returned, by the book as the catalog
\* has it now, or by null when the book is gone
Populated(order) ==
  [order EXCEPT !.items =
     [i \in 1..Len(order.items) |->
        LET bookId == order.items[i].book IN
        [order.items[i] EXCEPT !.book =
           IF Found(bookId)
           THEN <<[_id |-> bookId, title |-> catalog[bookId].title,
                   publisher |-> catalog[bookId].publisher,
                   image |-> catalog[bookId].image]>>
           ELSE <<>>]]]

\* GET /api/orders/:id: Order.findOne({ orderId: id }) and the response
GetOrderById(id) ==
  /\ srv.pc = "idle"
  /\ LET found == {k \in 1..Len(orders) : orders[k].orderId = id} IN
       resp' = IF found = {}
               THEN Reject(404, "Order not found")
               ELSE [NoResp EXCEPT !.status = 200, !.success = TRUE,
                       !.orderId = id,
                       !.data = <<Populated(orders[CHOOSE k \in found : TRUE])>>]
  /\ srv' = [Idle EXCEPT !.pc = "fetched"]
  /\ UNCHANGED <<catalog, orders, readLog>>

GetOrder == \E id \in OrderIds : GetOrderById(id)

\* the response of getOrderById has been sent
FetchSent ==
  /\ srv.pc = "fetched"
  /\ srv' = Idle
  /\ resp' = NoResp
  /\ UNCHANGED <<catalog, orders, readLog>>

\* -------------------------------------------------- the checkout form
\* Field values are sequences of one-character strings, so that trimming,
\* lengths and the two regular expressions are computed character by
\* character.
Whitespace == {" ", "\t"}

Digit == {"0", "1", "2", "3", "4", "5", "6", "7", "8", "9"}

\* the class [-.\s]
Separator == {"-", "."} \cup Whitespace

RECURSIVE TrimStart(_)
TrimStart(s) ==
  IF s # <<>> /\ Head(s) \in Whitespace THEN TrimStart(Tail(s)) ELSE s

RECURSIVE TrimEnd(_)
TrimEnd(s) ==
  IF s # <<>> /\ s[Len(s)] \in Whitespace
  THEN TrimEnd(SubSeq(s, 1, Len(s) - 1))
  ELSE s

\* String.prototype.trim
trim(s) == TrimEnd(TrimStart(s))

\* Matching is computed on sets of positions: P holds the indices at which
\* the rest of the pattern may start; After consumes one character of class
\* C, AfterNot one character outside C.
After(s, P, C) == {p + 1 : p \in {q \in P : q <= Len(s) /\ s[q] \in C}}

AfterNot(s, P, C) == {p + 1 : p \in {q \in P : q <= Len(s) /\ s[q] \notin C}}

\* (\d{1,3})?
CountryCode(s, P) ==
  LET d1 == After(s, P, Digit)
      d2 == After(s, d1, Digit)
      d3 == After(s, d2, Digit)
  IN  P \cup d1 \cup d2 \cup d3

\* (\(?\d{3}\)?[-.\s]?)?
AreaCode(s, P) ==
  LET open   == P \cup After(s, P, {"("})
      digits == After(s, After(s, After(s, open, Digit), Digit), Digit)
      close  == digits \cup After(s, digits, {")"})
      sep    == close \cup After(s, close, Separator)
  IN  P \cup sep

\* \d[-.\s]?
DigitSep(s, P) ==
  LET d == After(s, P, Digit) IN d \cup After(s, d, Separator)

RECURSIVE Times(_, _, _)
Times(s, P, n) == IF n = 0 THEN P ELSE Times(s, DigitSep(s, P), n - 1)

\* PHONE_REGEX = /^\+?(\d{1,3})?[-.\s]?(\(?\d{3}\)?[-.\s]?)?(\d[-.\s]?){6,15}\d$/
PHONE_REGEX(s) ==
  LET plus    == {1} \cup After(s, {1}, {"+"})
      country == CountryCode(s, plus)
      sep     == country \cup After(s, country, Separator)
      area    == AreaCode(s, sep)
      body    == UNION {Times(s, area, n) : n \in 6..15}
      last    == After(s, body, Digit)
  IN  Len(s) + 1 \in last

RECURSIVE Closure(_, _, _)
Closure(s, P, C) ==
  LET Q == P \cup AfterNot(s, P, C) IN
  IF Q = P THEN P ELSE Closure(s, Q, C)

\* [^\s@]+
OneOrMoreNot(s, P, C) == Closure(s, AfterNot(s, P, C), C)

\* EMAIL_REGEX = /^[^\s@]+@[^\s@]+\.[^\s@]+$/
EMAIL_REGEX(s) ==
  LET excluded == Whitespace \cup {"@"}
      local  == OneOrMoreNot(s, {1}, excluded)
      at     == After(s, local, {"@"})
      domain == OneOrMoreNot(s, at, excluded)
      dot    == After(s, domain, {"."})
      tld    == OneOrMoreNot(s, dot, excluded)
  IN  Len(s) + 1 \in tld

RequiredFields == {"name", "phone", "email", "address"}

validateField_ShortAddress(name, value) ==
  CASE name = "name" ->
         IF trim(value) = <<>> THEN "Name is required"
         ELSE IF Len(trim(value)) < 2 THEN "Name must be at least 2 characters"
         ELSE ""
    [] name = "phone" ->
         IF trim(value) = <<>> THEN "Phone number is required"
         ELSE IF ~PHONE_REGEX(trim(value))
         THEN "Please enter a valid phone number (e.g., +1-555-123-4567)"
         ELSE ""
    [] name = "email" ->
         IF trim(value) = <<>> THEN "Email is required"
         ELSE IF ~EMAIL_REGEX(trim(value))
         THEN "Please enter a valid email address"
         ELSE ""
    [] name = "address" ->
         IF trim(value) = <<>> THEN "Address is required"
         ELSE IF Len(trim(value)) < 9
         THEN "Address must be at least 10 characters"
         ELSE ""
    [] OTHER -> ""

validateField(name, value) ==
  CASE name = "name" ->
         IF trim(value) = <<>> THEN "Name is required"
         ELSE IF Len(trim(value)) < 2 THEN "Name must be at least 2 characters"
         ELSE ""
    [] name = "phone" ->
         IF trim(value) = <<>> THEN "Phone number is required"
         ELSE IF ~PHONE_REGEX(trim(value))
         THEN "Please enter a valid phone number (e.g., +1-555-123-4567)"
         ELSE ""
    [] name = "email" ->
         IF trim(value) = <<>> THEN "Email is required"
         ELSE IF ~EMAIL_REGEX(trim(value))
         THEN "Please enter a valid email address"
         ELSE ""
    [] name = "address" ->
         IF trim(value) = <<>> THEN "Address is required"
         ELSE IF Len(trim(value)) < 10
         THEN "Address must be at least 10 characters"
         ELSE ""
    [] OTHER -> ""

\* the order in which validateForm visits the fields
requiredFields == <<"name", "phone", "email", "address">>

validateForm_FirstErrorOnly(form) ==
  LET error == [i \in 1..Len(requiredFields) |->
                  validateField(requiredFields[i], form[requiredFields[i]])]
      failing == {i \in 1..Len(requiredFields) : error[i] # ""}
      first == IF failing = {} THEN {}
               ELSE {CHOOSE i \in failing : \A j \in failing : i <= j}
  IN  [f \in {requiredFields[i] : i \in first} |->
         error[CHOOSE i \in first : requiredFields[i] = f]]

\* newErrors of validateForm: every required field is validated and each
\* failing one gets its message; the form is valid iff the map is empty
validateForm(form) ==
  LET error == [i \in 1..Len(requiredFields) |->
                  validateField(requiredFields[i], form[requiredFields[i]])]
      failing == {i \in 1..Len(requiredFields) : error[i] # ""}
  IN  [f \in {requiredFields[i] : i \in failing} |->
         error[CHOOSE i \in failing : requiredFields[i] = f]]

NoErrors == <<>>

SubmitError == [f \in {"submit"} |-> "Failed to process your order. Please try again."]

\* values a user may type
Digits(n) == [i \in 1..n |-> "5"]

Filled(n) == [i \in 1..n |-> "x"]

Blank == <<>>

\* digit counts around the limits of PHONE_REGEX
DigitCounts == {6, 7, 16, 17, 22, 23}

\* lengths around the limits of the name and address checks
NameLengths == {1, 2}

AddressLengths == {9, 10}

NameInputs ==
  { <<>>,
    <<" ", " ">>,
    <<" ", "J", " ">>,
    <<"J", "o", "h", "n", " ", "D", "o", "e">> }
  \cup {Filled(n) : n \in NameLengths}

PhoneInputs ==
  { <<>>,
    <<" ">>,
    <<"a", "b", "c">>,
    <<"+", "1", "-", "5", "5", "5", "-", "1", "2", "3", "-", "4", "5", "6", "7">>,
    <<"(", "5", "5", "5", ")", " ", "1", "2", "3", "-", "4", "5", "6", "7">>,
    <<"5", "5", "5", "-", "-", "1", "2", "3", "4", "5", "6", "7">>,
    <<" ", "5", "5", "5", "5", "5", "5", "5", " ">>,
    <<"+", "5", "5", "5", "5", "5", "5", "5">>,
    <<"5", "5", "5", "5", "5", "5", "5", "-">> }
  \cup {Digits(n) : n \in DigitCounts}

EmailInputs ==
  { <<>>,
    <<" ">>,
    <<"a", "@", "b", ".", "c", "o", "m">>,
    <<"a", "@", "b">>,
    <<"a", " ", "b", "@", "c", ".", "c", "o", "m">>,
    <<" ", "a", "@", "b", ".", "c", "o", "m", " ">>,
    <<"a", "@", "b", "@", "c", ".", "c", "o", "m">>,
    <<"@", "b", ".", "c", "o", "m">>,
    <<"a", "@", "b", ".">>,
    <<"j", "o", "h", "n", "@", "e", "x", "a", "m", "p", "l", "e", ".", "c", "o", "m">> }

AddressInputs ==
  { <<>>,
    <<" ", " ", " ">>,
    <<" ", "x", "x", "x", "x", "x", "x", "x", "x", "x", " ">>,
    <<"1", "2", "3", " ", "M", "a", "i", "n", " ", "S", "t", ",", " ", "A", "n", "y", "t", "o", "w", "n", ",", " ", "U", "S", "A", " ", "1", "2", "3", "4", "5">> }
  \cup {Filled(n) : n \in AddressLengths}

Inputs(name) ==
  CASE name = "name" -> NameInputs
    [] name = "phone" -> PhoneInputs
    [] name = "email" -> EmailInputs
    [] name = "address" -> AddressInputs

\* useState initial value of formData
BlankForm ==
  [name |-> Blank, organization |-> Blank, phone |-> Blank, email |-> Blank,
   address |-> Blank]

\* the customer of the README's Create Order example
ValidForm ==
  [name |-> <<"J", "o", "h", "n", " ", "D", "o", "e">>,
   organization |-> Blank,
   phone |-> <<"+", "1", "-", "5", "5", "5", "-", "1", "2", "3", "-", "4", "5", "6", "7">>,
   email |-> <<"j", "o", "h", "n", "@", "e", "x", "a", "m", "p", "l", "e", ".", "c", "o", "m">>,
   address |-> <<"1", "2", "3", " ", "M", "a", "i", "n", " ", "S", "t", ",", " ", "A", "n", "y", "t", "o", "w", "n", ",", " ", "U", "S", "A", " ", "1", "2", "3", "4", "5">>]

\* forms the model explores: every combination of blank and example values,
\* and the example form with one field holding another of its inputs
Explored(form) ==
  \/ \A f \in RequiredFields : form[f] \in {Blank, ValidForm[f]}
  \/ \E f \in RequiredFields :
       \A g \in RequiredFields \ {f} : form[g] = ValidForm[g]

SessionForms == {BlankForm, ValidForm}

\* ----------------------------------------------------- the checkout page
clientVars == <<page, isSubmitting, errors, sub, link, navTimer, formData>>

vars == <<items, totalItems, totalPrice, storage, op,
          catalog, orders, readLog, srv, resp,
          page, isSubmitting, errors, sub, link, navTimer, formData,
          peer, otherTab>>

\* the parties that run beside this tab and this request handler: a second
\* createOrder request in flight, and the cart store of a second tab
concurrentVars == <<peer, otherTab>>

NoSubmission ==
  [pc |-> "none", body |-> NoBody, before |-> InitialCart, outcome |-> "none"]

ClientInit ==
  /\ page = "home"
  /\ isSubmitting = FALSE
  /\ errors = NoErrors
  /\ sub = NoSubmission
  /\ link = "none"
  /\ navTimer = NoId
  /\ formData = BlankForm

OrderItems_WithPrice(s) ==
  [i \in 1..Len(s) |-> [bookId |-> ResolveId(s[i].book),
                        quantity |-> s[i].quantity,
                        price |-> s[i].book.price]]

\* items.map(...) of handleSubmit: throws on an item without book or id
OrderItems(s) ==
  [i \in 1..Len(s) |-> [bookId |-> ResolveId(s[i].book),
                        quantity |-> s[i].quantity]]

MapThrows(s) == \E i \in 1..Len(s) : ~IsValidItem(s[i])

HandleSubmit_NoFlag ==
  /\ page = "checkout"
  /\ Len(items) > 0
  /\ ~isSubmitting
  /\ UNCHANGED <<page, link, navTimer, formData>>
  /\ LET newErrors == validateForm(formData) IN
       IF DOMAIN newErrors # {}
       THEN /\ errors' = newErrors
            /\ sub' = [NoSubmission EXCEPT !.pc = "settled",
                         !.before = Current, !.outcome = "invalid"]
            /\ UNCHANGED isSubmitting
       ELSE IF MapThrows(items)
       THEN /\ errors' = SubmitError
            /\ sub' = [NoSubmission EXCEPT !.pc = "settled",
                         !.before = Current, !.outcome = "thrown"]
            /\ UNCHANGED isSubmitting
       ELSE /\ UNCHANGED isSubmitting
            /\ errors' = newErrors
            /\ sub' = [pc |-> "sent",
                       body |-> [customerOk |-> TRUE,
                                 items |-> OrderItems(items),
                                 totalPrice |-> totalPrice],
                       before |-> Current, outcome |-> "none"]

\* handleSubmit up to its await of orderApi.createOrder; the form is only
\* rendered for a non-empty cart and its button is disabled while
\* isSubmitting, which is all that keeps the handler from running again
HandleSubmit ==
  /\ page = "checkout"
  /\ Len(items) > 0
  /\ ~isSubmitting
  /\ UNCHANGED <<page, link, navTimer, formData>>
  /\ LET newErrors == validateForm(formData) IN
       IF DOMAIN newErrors # {}
       THEN /\ errors' = newErrors
            /\ sub' = [NoSubmission EXCEPT !.pc = "settled",
                         !.before = Current, !.outcome = "invalid"]
            /\ UNCHANGED isSubmitting
       ELSE IF MapThrows(items)
       THEN /\ errors' = SubmitError
            /\ sub' = [NoSubmission EXCEPT !.pc = "settled",
                         !.before = Current, !.outcome = "thrown"]
            /\ UNCHANGED isSubmitting
       ELSE /\ isSubmitting' = TRUE
            /\ errors' = newErrors
            /\ sub' = [pc |-> "sent",
                       body |-> [customerOk |-> TRUE,
                                 items |-> OrderItems(items),
                                 totalPrice |-> totalPrice],
                       before |-> Current, outcome |-> "none"]

\* handleInputChange: the field takes the typed value and a message shown
\* for it is blanked
HandleInputChange(name, value) ==
  /\ page = "checkout"
  /\ Len(items) > 0
  /\ formData[name] # value
  /\ Explored([formData EXCEPT ![name] = value])
  /\ formData' = [formData EXCEPT ![name] = value]
  /\ errors' = IF name \in DOMAIN errors /\ errors[name] # ""
               THEN [errors EXCEPT ![name] = ""]
               ELSE errors
  /\ UNCHANGED <<page, isSubmitting, sub, link, navTimer>>

\* handleBlur: the field's validator runs and its result is stored
HandleBlur(name) ==
  /\ page = "checkout"
  /\ Len(items) > 0
  /\ errors' = [f \in DOMAIN errors \cup {name} |->
                  IF f = name THEN validateField(name, formData[name])
                  ELSE errors[f]]
  /\ UNCHANGED <<page, isSubmitting, sub, link, navTimer, formData>>

\* the POST reaches the server
ReceiveOrder ==
  /\ sub.pc = "sent"
  /\ link = "none"
  /\ CreateOrderStart(sub.body)
  /\ sub' = [sub EXCEPT !.pc = "processing"]
  /\ link' = "open"
  /\ UNCHANGED <<page, isSubmitting, errors, navTimer, formData>>

ApiResult_IgnoreStatus(r) ==
  [success |-> TRUE, hasData |-> TRUE, orderId |-> r.orderId]

\* apiRequest: what it returns for a response
ApiResult(r) ==
  IF r.status >= 200 /\ r.status < 300
  THEN [success |-> TRUE, hasData |-> TRUE, orderId |-> r.orderId]
  ELSE [success |-> FALSE, hasData |-> FALSE, orderId |-> NoId]

NetworkFailure == [success |-> FALSE, hasData |-> FALSE, orderId |-> NoId]

Continue_ClearFirst(result, outcome) ==
  /\ isSubmitting' = FALSE
  /\ Commit(clearCart(Current), Call("clearCart", NoId, 0))
  /\ IF result.success /\ result.hasData
     THEN /\ navTimer' = result.orderId
          /\ errors' = errors
          /\ sub' = [sub EXCEPT !.pc = "settled", !.outcome = "success"]
     ELSE /\ errors' = SubmitError
          /\ sub' = [sub EXCEPT !.pc = "settled", !.outcome = outcome]
          /\ UNCHANGED navTimer
  /\ UNCHANGED <<page, formData>>

\* handleSubmit after the await: success branch, catch and finally
Continue(result, outcome) ==
  /\ isSubmitting' = FALSE
  /\ IF result.success /\ result.hasData
     THEN /\ Commit(clearCart(Current), Call("clearCart", NoId, 0))
          /\ navTimer' = result.orderId
          /\ errors' = errors
          /\ sub' = [sub EXCEPT !.pc = "settled", !.outcome = "success"]
     ELSE /\ errors' = SubmitError
          /\ sub' = [sub EXCEPT !.pc = "settled", !.outcome = outcome]
          /\ UNCHANGED <<cartVars, navTimer>>
  /\ UNCHANGED <<page, formData>>

\* the response arrives and handleSubmit resumes
SubmitResolve ==
  /\ sub.pc = "processing"
  /\ link = "open"
  /\ srv.pc = "done"
  /\ Continue(ApiResult(resp), "rejected")
  /\ srv' = Idle
  /\ resp' = NoResp
  /\ link' = "none"
  /\ UNCHANGED <<catalog, orders, readLog>>

\* fetch rejects or the body does not parse: apiRequest returns a failure,
\* whatever the server has done or still does with the request
TransportFailure ==
  /\ sub.pc \in {"sent", "processing"}
  /\ Continue(NetworkFailure, "transport")
  /\ link' = IF sub.pc = "processing" THEN "closed" ELSE link
  /\ UNCHANGED serverVars

\* the response to a request whose client has given up is discarded
ResponseLost ==
  /\ link = "closed"
  /\ srv.pc = "done"
  /\ srv' = Idle
  /\ resp' = NoResp
  /\ link' = "none"
  /\ UNCHANGED <<catalog, orders, readLog, page, isSubmitting, errors, sub,
                 navTimer, formData>>

EmptyCartRedirect_CancelsTimer ==
  /\ page = "checkout"
  /\ Len(items) = 0
  /\ page' = "home"
  /\ navTimer' = NoId
  /\ UNCHANGED <<isSubmitting, errors, sub, link, formData>>

\* useEffect of the checkout page: an empty cart redirects to /
EmptyCartRedirect ==
  /\ page = "checkout"
  /\ Len(items) = 0
  /\ page' = "home"
  /\ UNCHANGED <<isSubmitting, errors, sub, link, navTimer, formData>>

\* router.push(`/confirmation?orderId=${orderId}`)
ConfirmationUrl(orderId) == "/confirmation?orderId=" \o orderId

\* the 2 s timer set after a success fires
ConfirmationTimer ==
  /\ navTimer # NoId
  /\ page' = ConfirmationUrl(navTimer)
  /\ navTimer' = NoId
  /\ UNCHANGED <<isSubmitting, errors, sub, link, formData>>

\* ------------------------------------------- concurrent handler and tab
\* a second createOrder request being served: Node runs one handler at a
\* time and may resume the other one at every await
NoPeer == [srv |-> Idle, resp |-> NoResp]

\* the cart store of a second tab on the same localStorage; event tells
\* whether a storage event is on its way to that tab, activeEvent whether
\* one is on its way to this tab
NoTab ==
  [items |-> <<>>, totalItems |-> 0, totalPrice |-> 0,
   event |-> FALSE, activeEvent |-> FALSE]

ConcurrentInit ==
  /\ peer = NoPeer
  /\ otherTab = NoTab

\* the event loop resumes the other handler
Switch ==
  /\ peer # [srv |-> srv, resp |-> resp]
  /\ srv' = peer.srv
  /\ resp' = peer.resp
  /\ peer' = [srv |-> srv, resp |-> resp]
  /\ UNCHANGED <<catalog, orders, readLog>>

\* requests for one known book each, posted while another may be in flight
ConcurrentBodies ==
  [customerOk : {TRUE},
   items : {<<ReqItem(bookId, quantity)>> :
              bookId \in BookIds, quantity \in 1..MaxReqQty},
   totalPrice : ClaimedTotals]

PostConcurrent == \E b \in ConcurrentBodies : CreateOrderStart(b)

CartStep ==
  CartNext /\ UNCHANGED serverVars /\ UNCHANGED clientVars
           /\ UNCHANGED concurrentVars

\* a fresh session: empty store, seeded catalog, nothing submitted
FreshInit == CartInit /\ ServerInit /\ ClientInit /\ ConcurrentInit

SpecCart == FreshInit /\ [][CartStep]_vars

OrderNext ==
  \/ PostOrder
  \/ LookupBook
  \/ SaveOrder
  \/ NotifyOwner
  \/ NotifyCustomer
  \/ CatalogUpdate
  \/ ResponseSent

OrderStep ==
  OrderNext /\ UNCHANGED cartVars /\ UNCHANGED clientVars
            /\ UNCHANGED concurrentVars

SpecOrder == FreshInit /\ [][OrderStep]_vars

\* requests the API of this slice serves: well-formed orders for one or two
\* known books
ApiBodies ==
  [customerOk : {TRUE},
   items : {s \in UNION {[1..n -> {ReqItem(bookId, 1) : bookId \in BookIds}] :
                           n \in 1..MaxItems} :
              \A i, j \in 1..Len(s) : s[i].bookId = s[j].bookId => i = j},
   totalPrice : ClaimedTotals \cup {2}]

PostApi == \E b \in ApiBodies : CreateOrderStart(b)

ApiNext ==
  \/ PostApi
  \/ LookupBook
  \/ SaveOrder
  \/ NotifyOwner
  \/ NotifyCustomer
  \/ CatalogUpdate
  \/ ResponseSent
  \/ GetOrder
  \/ FetchSent

ApiStep ==
  ApiNext /\ UNCHANGED cartVars /\ UNCHANGED clientVars
          /\ UNCHANGED concurrentVars

\* every route of /api/orders, with the catalog changing underneath
SpecApi == FreshInit /\ [][ApiStep]_vars

ConcurrentNext ==
  \/ (PostConcurrent /\ UNCHANGED peer)
  \/ (LookupBook /\ UNCHANGED peer)
  \/ (SaveOrder /\ UNCHANGED peer)
  \/ (NotifyOwner /\ UNCHANGED peer)
  \/ (NotifyCustomer /\ UNCHANGED peer)
  \/ (ResponseSent /\ UNCHANGED peer)
  \/ Switch

ConcurrentStep ==
  ConcurrentNext /\ UNCHANGED cartVars /\ UNCHANGED clientVars
                 /\ UNCHANGED otherTab

\* two createOrder requests served concurrently by one Node process
SpecConcurrent == FreshInit /\ [][ConcurrentStep]_vars

\* localStorage queues a storage event for the other tab when a write
\* changes the stored value
Notify == otherTab' = [otherTab EXCEPT !.event = @ \/ storage' # storage]

TabBooks == {book \in ClientBooks : ResolveId(book) # NoId}

TabAdd ==
  \E book \in TabBooks :
    /\ QtyInBound(addToCart(Current, book, 1).items)
    /\ AddToCartCall(book, 1)
    /\ Notify

TabRemove == \E bookId \in BookIds : RemoveFromCartCall(bookId) /\ Notify

TabClear == ClearCart /\ Notify

TabReload == Rehydrate /\ Notify

\* the user turns to the other tab: its store becomes the one acted on
SwitchTab ==
  /\ items' = otherTab.items
  /\ totalItems' = otherTab.totalItems
  /\ totalPrice' = otherTab.totalPrice
  /\ otherTab' = [items |-> items, totalItems |-> totalItems,
                  totalPrice |-> totalPrice,
                  event |-> otherTab.activeEvent,
                  activeEvent |-> otherTab.event]
  /\ UNCHANGED <<storage, op>>

\* a queued storage event is dispatched in this tab: neither the persist
\* options nor any other module registers a listener for it, so the store
\* keeps its state
StorageEvent ==
  /\ otherTab.activeEvent
  /\ otherTab' = [otherTab EXCEPT !.activeEvent = FALSE]
  /\ UNCHANGED cartVars

TabsNext ==
  \/ TabAdd
  \/ TabRemove
  \/ TabClear
  \/ TabReload
  \/ SwitchTab
  \/ StorageEvent

TabsStep ==
  TabsNext /\ UNCHANGED serverVars /\ UNCHANGED clientVars /\ UNCHANGED peer

\* two tabs of one browser on the same localStorage key
SpecTabs == FreshInit /\ [][TabsStep]_vars

InputChange ==
  \E name \in RequiredFields : \E value \in Inputs(name) :
    HandleInputChange(name, value)

Blur == \E name \in RequiredFields : HandleBlur(name)

FormNext ==
  \/ (InputChange /\ UNCHANGED <<cartVars, serverVars>>)
  \/ (Blur /\ UNCHANGED <<cartVars, serverVars>>)
  \/ (HandleSubmit /\ UNCHANGED <<cartVars, serverVars>>)
  \/ TransportFailure

FormStep == FormNext /\ UNCHANGED concurrentVars

\* carts a session can have built when the checkout page is opened: valid
\* entries with distinct identifiers, and totals that are either the ones
\* computed by the last mutation or the zeros left by a page load
CartEntries ==
  {[hasBook |-> TRUE, book |-> book, quantity |-> quantity] :
     book \in {b \in ClientBooks : ResolveId(b) # NoId}, quantity \in 1..MaxQty}

SessionItemLists ==
  {s \in UNION {[1..n -> CartEntries] : n \in 1..Cardinality(BookIds)} :
     NoDuplicateIds(s)}

CheckoutInit ==
  /\ items \in SessionItemLists
  /\ \E loaded \in BOOLEAN :
       /\ totalItems = (IF loaded THEN 0 ELSE SumQuantity(items))
       /\ totalPrice = (IF loaded THEN 0 ELSE SumPrice(items))
       /\ op = (IF loaded THEN [NoOp EXCEPT !.name = "rehydrate"] ELSE NoOp)
  /\ storage = [present |-> TRUE, items |-> partialize(items)]
  /\ page = "checkout"
  /\ isSubmitting = FALSE
  /\ errors = NoErrors
  /\ sub = NoSubmission
  /\ link = "none"
  /\ navTimer = NoId
  /\ formData \in SessionForms

Next ==
  \/ (HandleSubmit /\ UNCHANGED <<cartVars, serverVars, concurrentVars>>)
  \/ (ReceiveOrder /\ UNCHANGED <<cartVars, concurrentVars>>)
  \/ (LookupBook /\ UNCHANGED <<cartVars, clientVars, concurrentVars>>)
  \/ (SaveOrder /\ UNCHANGED <<cartVars, clientVars, concurrentVars>>)
  \/ (NotifyOwner /\ UNCHANGED <<cartVars, clientVars, concurrentVars>>)
  \/ (NotifyCustomer /\ UNCHANGED <<cartVars, clientVars, concurrentVars>>)
  \/ (CatalogUpdate /\ UNCHANGED <<cartVars, clientVars, concurrentVars>>)
  \/ (SubmitResolve /\ UNCHANGED concurrentVars)
  \/ (TransportFailure /\ UNCHANGED concurrentVars)
  \/ (ResponseLost /\ UNCHANGED <<cartVars, concurrentVars>>)
  \/ (EmptyCartRedirect /\ UNCHANGED <<cartVars, serverVars, concurrentVars>>)
  \/ (ConfirmationTimer /\ UNCHANGED <<cartVars, serverVars, concurrentVars>>)

Init == CheckoutInit /\ ServerInit /\ ConcurrentInit

Spec == Init /\ [][Next]_vars

\* what the browser's event loop guarantees: a response that has arrived is
\* handed to the awaiting handleSubmit, a timer that was set fires, an effect
\* whose condition holds runs. Nothing obliges the network or the server to
\* deliver, answer or fail.
Fairness ==
  /\ WF_vars(SubmitResolve /\ UNCHANGED concurrentVars)
  /\ WF_vars(ConfirmationTimer /\ UNCHANGED <<cartVars, serverVars, concurrentVars>>)
  /\ WF_vars(EmptyCartRedirect /\ UNCHANGED <<cartVars, serverVars, concurrentVars>>)

SpecLive == Init /\ [][Next]_vars /\ Fairness

\* the checkout page freshly opened on a cart of one book: the form is blank
FormInit ==
  /\ Init
  /\ formData = BlankForm
  /\ Len(items) = 1
  /\ items[1].quantity = 1

\* the user fills in, leaves and submits the checkout form
SpecForm == FormInit /\ [][FormStep]_vars

\* items arrays of the CartItem type, entries without book or without
\* identifier included: the inputs handleSubmit's items.map guards against
CorruptEntries ==
  {[hasBook |-> FALSE, book |-> NoBook, quantity |-> 1],
   [hasBook |-> TRUE, book |-> [_id |-> NoId, id |-> NoId, price |-> 5],
    quantity |-> 1]}

AnyItemLists ==
  {s \in UNION {[1..n -> CartEntries \cup CorruptEntries] : n \in 1..MaxItems} :
     NoDuplicateIds(SelectSeq(s, IsValidItem))}

SubmitInit ==
  /\ items \in AnyItemLists
  /\ totalItems = SumQuantity(items)
  /\ totalPrice = SumPrice(items)
  /\ op = NoOp
  /\ storage = [present |-> TRUE, items |-> partialize(items)]
  /\ page = "checkout"
  /\ isSubmitting = FALSE
  /\ errors = NoErrors
  /\ sub = NoSubmission
  /\ link = "none"
  /\ navTimer = NoId
  /\ formData \in SessionForms
  /\ ServerInit
  /\ ConcurrentInit

SubmitNext ==
  \/ (HandleSubmit /\ UNCHANGED <<cartVars, serverVars>>)
  \/ TransportFailure

SubmitStep == SubmitNext /\ UNCHANGED concurrentVars

\* handleSubmit applied to every items array of the CartItem type
SpecSubmit == SubmitInit /\ [][SubmitStep]_vars

\* ------------------------------------------------------------ cart claims
TotalsMatch ==
  /\ totalItems = SumQuantity(items)
  /\ totalPrice = SumPrice(items)

CartCalls ==
  {"addToCart", "removeFromCart", "updateQuantity", "clearCart", "cleanupCart"}

\* C1: after every addToCart / removeFromCart / updateQuantity / clearCart /
\* cleanupCart call, totalItems is the sum of the quantities and totalPrice
\* the sum of quantity * book.price over the current items.
C1_TotalsAfterEveryCall == op.name \in CartCalls => TotalsMatch

\* C6: after rehydration from storage and the cleanup that follows it, the
\* totals are the sums recomputed over the rehydrated items.
C6_TotalsAfterRehydrate == op.name = "rehydrate" => TotalsMatch

EntriesFor(s, bookId) == {i \in 1..Len(s) : ResolveId(s[i].book) = bookId}

\* C7: no two cart items share a book identifier; adding a book that is
\* already in the cart with quantity a, by b, leaves one entry for it with
\* quantity a + b and the same number of entries.
C7_NoDuplicateMerge ==
  /\ NoDuplicateIds(items)
  /\ \A book \in ClientBooks, b \in QtyArgs :
       LET bookId == ResolveId(book)
           after  == addToCart(Current, book, b).items
       IN  (bookId # NoId /\ InCart(items, bookId)) =>
             /\ Len(after) = Len(items)
             /\ Cardinality(EntriesFor(after, bookId)) = 1
             /\ \A i \in EntriesFor(items, bookId) :
                  after[i].quantity = items[i].quantity + b

C7_Witness ==
  /\ op.name = "addToCart"
  /\ op.found
  /\ op.quantity > 0
  /\ Len(items) = 2

\* C8: every cart item has a quantity of at least 1, whatever quantity the
\* callers passed.
C8_QuantityAtLeastOne == \A i \in 1..Len(items) : items[i].quantity >= 1

\* C9: the cleanup (on its own or after hydration) removes exactly the
\* entries without a book or identifier, keeps the others in order, leaves
\* only resolvable entries with matching totals, and is idempotent.
CleanupResult(before) ==
  /\ items' = SelectSeq(before, IsValidItem)
  /\ \A i \in 1..Len(items') : IsValidItem(items'[i])
  /\ totalItems' = SumQuantity(items')
  /\ totalPrice' = SumPrice(items')
  /\ cleanupCart(CartState(items', totalItems', totalPrice', FALSE))
       = CartState(items', totalItems', totalPrice', FALSE)

C9_CleanupExact ==
  [][/\ CleanupCart => CleanupResult(items)
     /\ Rehydrate => CleanupResult(merge(storage).items)]_vars

\* C10: updateQuantity(id, q) with q <= 0 leaves the cart (items, totals and
\* what is persisted) exactly as removeFromCart(id) would.
RemoveFromCartEffect(bookId) ==
  LET r == removeFromCart(Current, bookId) IN
    /\ items' = r.items
    /\ totalItems' = r.totalItems
    /\ totalPrice' = r.totalPrice
    /\ storage' = IF r.wrote
                  THEN [present |-> TRUE, items |-> partialize(r.items)]
                  ELSE storage

C10_NonPositiveUpdateIsRemove ==
  [][\A bookId \in BookIds, quantity \in QtyArgs :
       (quantity <= 0 /\ UpdateQuantityCall(bookId, quantity))
          => RemoveFromCartEffect(bookId)]_vars

C10_Witness ==
  /\ op.name = "updateQuantity"
  /\ op.quantity <= 0
  /\ op.found
  /\ Len(items) = 1

CartUnchanged ==
  /\ items' = items
  /\ totalItems' = totalItems
  /\ totalPrice' = totalPrice

\* C11: updateQuantity(id, q) with q > 0 sets the quantity of the entry with
\* identifier id to exactly q, leaves every other entry as it was and adds
\* none; when id is not in the cart, items and totals stay as they were.
C11_UpdateSetsExactQuantity ==
  [][\A bookId \in BookIds, quantity \in QtyArgs :
       (quantity > 0 /\ UpdateQuantityCall(bookId, quantity)) =>
          /\ Len(items') = Len(items)
          /\ \A i \in 1..Len(items) :
               items'[i] = IF ResolveId(items[i].book) = bookId
                           THEN [items[i] EXCEPT !.quantity = quantity]
                           ELSE items[i]
          /\ ~InCart(items, bookId) => CartUnchanged]_vars

\* the identifiers of a cart's entries, in list order
Ids(s) == [i \in 1..Len(s) |-> ResolveId(s[i].book)]

\* s without position k
Without(s, k) == SubSeq(s, 1, k - 1) \o SubSeq(s, k + 1, Len(s))

C12_SilentNoOp ==
  [][/\ \A book \in ClientBooks, quantity \in QtyArgs :
          (ResolveId(book) = NoId /\ AddToCartCall(book, quantity))
             => CartUnchanged
     /\ \A bookId \in BookIds :
          (~InCart(items, bookId) /\ RemoveFromCartCall(bookId))
             => CartUnchanged
     /\ \A i \in 1..Len(items') : items'[i].hasBook]_vars

C12_Witness ==
  /\ op.name = "addToCart"
  /\ op.id = NoId
  /\ Len(items) = 2
  /\ ~TotalsMatch

\* ---------------------------------------------------------- order claims
InFlight == srv.pc # "idle"

Responded == srv.pc = "done"

NothingPersisted == Len(orders) = srv.before

\* the loop has processed every item of the request
AllLookedUp ==
  /\ InFlight
  /\ Len(srv.body.items) >= 1
  /\ Len(srv.reads) = Len(srv.body.items)

\* the total of the request at the prices read from the catalog
RECURSIVE TotalAtReads(_, _)
TotalAtReads(reqItems, reads) ==
  IF reqItems = <<>> THEN 0
  ELSE Head(reqItems).quantity * Head(reads).price
         + TotalAtReads(Tail(reqItems), Tail(reads))

Difference == Abs(TotalAtReads(srv.body.items, srv.reads) - srv.body.totalPrice)

MismatchResponse == resp.error = "Total price mismatch"

\* C2: when the total computed from the catalog prices differs from the
\* claimed totalPrice by more than 0.01 the request is answered 400 with
\* both totals and no order is persisted; within 0.01 this check does not
\* reject.
C2_MismatchRejected ==
  /\ (AllLookedUp /\ Difference > Tolerance) =>
       /\ srv.pc = "done"
       /\ MismatchResponse
       /\ resp.status = 400
       /\ ~resp.success
       /\ resp.calculatedTotal = TotalAtReads(srv.body.items, srv.reads)
       /\ resp.providedTotal = srv.body.totalPrice
       /\ NothingPersisted
  /\ (AllLookedUp /\ Difference <= Tolerance) =>
       /\ ~MismatchResponse
       /\ srv.pc \in {"save", "notifyOwner", "notifyCustomer", "done"}
  /\ MismatchResponse => (AllLookedUp /\ Difference > Tolerance)

C2_Witness ==
  /\ MismatchResponse
  /\ Len(srv.body.items) = 2
  /\ Difference = Tolerance + 1

Unresolvable(bookId) == bookId # NoId /\ ~Found(bookId)

HasUnresolvable(b) ==
  \E i \in 1..Len(b.items) : Unresolvable(b.items[i].bookId)

C4_OrderSnapshot ==
  /\ Len(readLog) = Len(orders)
  /\ \A k \in 1..Len(orders) :
       /\ orders[k].totalPrice = LineTotal(orders[k].items)
       /\ Len(orders[k].items) = Len(readLog[k])
       /\ \A i \in 1..Len(orders[k].items) :
            /\ orders[k].items[i].price = readLog[k][i].price
            /\ orders[k].items[i].title = readLog[k][i].title
            /\ orders[k].items[i].publisher = readLog[k][i].publisher
            /\ orders[k].items[i].image = readLog[k][i].image
            /\ orders[k].items[i].price # ClientPrice
            /\ orders[k].items[i].title # ClientText

C4_Witness ==
  /\ srv.pc = "notifyOwner"
  /\ Len(orders) = 1
  /\ Len(orders[1].items) = 2
  /\ \E i \in 1..2 :
       orders[1].items[i].price # catalog[orders[1].items[i].book].price

\* what the claim lists as a bad request: no items, a totalPrice that is
\* missing or not positive (0 stands for both), an item without bookId or
\* with a quantity that is not positive
BadRequest(b) ==
  \/ Len(b.items) = 0
  \/ b.totalPrice <= 0
  \/ \E i \in 1..Len(b.items) :
       b.items[i].bookId = NoId \/ b.items[i].quantity <= 0

\* every check of createOrder has passed for the request being served
ChecksPassed ==
  /\ ValidationErrors(srv.body) = {}
  /\ ~BadRequest(srv.body)
  /\ \A i \in 1..Len(srv.body.items) : ~InvalidItem(srv.body.items[i])
  /\ AllLookedUp
  /\ Difference <= Tolerance

\* C13: a request with no items, with a missing or non-positive totalPrice,
\* or with an item lacking bookId or having quantity <= 0 is answered 400
\* and persists nothing; an order is persisted only by a request for which
\* validation, item checks, catalog lookups and total comparison all passed.
C13_BadRequestIs400 ==
  /\ [](InFlight /\ BadRequest(srv.body) =>
          /\ srv.pc = "done"
          /\ resp.status = 400
          /\ ~resp.success
          /\ NothingPersisted)
  /\ [][orders' # orders =>
          /\ ChecksPassed
          /\ Len(orders') = Len(orders) + 1
          /\ SubSeq(orders', 1, Len(orders)) = orders]_vars

C13_Witness ==
  /\ srv.pc = "done"
  /\ resp.status = 400
  /\ srv.body.customerOk
  /\ Len(srv.body.items) = 2
  /\ ~InvalidItem(srv.body.items[1])
  /\ srv.body.items[2].quantity = 0
  /\ NothingPersisted

\* the request being served has persisted exactly one order, with the
\* schema defaults, a generated id and one line per requested item
PersistedOne ==
  /\ Len(orders) = srv.before + 1
  /\ LET order == orders[Len(orders)] IN
       /\ order.status = "pending"
       /\ order.paymentStatus = "pending"
       /\ order.orderId \in OrderIds
       /\ Len(order.items) = Len(srv.body.items)
       /\ \A i \in 1..Len(order.items) :
            /\ order.items[i].book = srv.body.items[i].bookId
            /\ order.items[i].quantity = srv.body.items[i].quantity
            /\ order.items[i].price = srv.reads[i].price
            /\ order.items[i].title = srv.reads[i].title
            /\ order.items[i].publisher = srv.reads[i].publisher
            /\ order.items[i].image = srv.reads[i].image

SaveFailures == {"Validation error", "Duplicate order", "Failed to create order"}

\* C14: a valid request (valid customer, every bookId resolved, every
\* quantity >= 1, claimed total within 0.01 of the total at the catalog
\* prices) whose save the database carries out persists exactly one order,
\* pending / pending, with a generated orderId and one line per requested
\* item carrying the catalog title, publisher, image and price and the
\* requested quantity, and is answered 201 with that order in the success
\* envelope; it is answered otherwise only when the save itself fails, and
\* then nothing is persisted.
C14_ValidRequestSucceeds ==
  (InFlight /\ ChecksPassed) =>
     /\ srv.pc \in {"save", "notifyOwner", "notifyCustomer", "done"}
     /\ srv.pc = "save" => NothingPersisted
     /\ srv.pc \in {"notifyOwner", "notifyCustomer"} => PersistedOne
     /\ srv.pc = "done" =>
          \/ /\ resp.status = 201
             /\ resp.success
             /\ PersistedOne
             /\ resp.data = <<OrderView(orders[Len(orders)])>>
             /\ resp.orderId = orders[Len(orders)].orderId
          \/ /\ resp.error \in SaveFailures
             /\ ~resp.success
             /\ NothingPersisted

C14_Witness ==
  /\ srv.pc = "done"
  /\ ChecksPassed
  /\ resp.status = 201
  /\ Len(resp.data) = 1
  /\ Len(resp.data[1].items) = 2
  /\ resp.data[1].items[1].quantity = 2

UniqueOrderIds ==
  \A i, j \in 1..Len(orders) :
    orders[i].orderId = orders[j].orderId => i = j

\* C15: no two persisted orders share an orderId, however the steps of
\* concurrent createOrder requests interleave; a save whose generated
\* orderId is already stored persists nothing and is answered 409.
C15_UniqueOrderIds ==
  /\ []UniqueOrderIds
  /\ [][\A orderId \in OrderIds :
          (orderId \in UsedOrderIds /\ Save(orderId, "saved")) =>
             /\ orders' = orders
             /\ resp'.status = 409
             /\ resp'.error = "Duplicate order"
             /\ ~resp'.success]_vars

C15_Witness ==
  /\ srv.pc = "done"
  /\ resp.status = 409
  /\ peer.srv.pc \in {"notifyOwner", "notifyCustomer"}
  /\ Len(orders) = 1

\* a notification of the request being served has been attempted
Notified == srv.owner # "none" \/ srv.customer # "none"

\* C16: the owner and customer notifications are attempted only after the
\* order has been persisted and never for a rejected request; a failed
\* notification leaves the persisted order in place and the response is
\* still the 201 success envelope.
C16_NotifyAfterPersist ==
  /\ [](Notified => (srv.pc \in {"notifyCustomer", "done"} /\ PersistedOne))
  /\ []((srv.pc = "done" /\ resp.status # 201) => ~Notified)
  /\ []((srv.pc = "done" /\ "failed" \in {srv.owner, srv.customer}) =>
          /\ resp.status = 201
          /\ resp.success
          /\ PersistedOne
          /\ resp.data = <<OrderView(orders[Len(orders)])>>)
  /\ [][(NotifyOwner \/ NotifyCustomer) => orders' = orders]_vars

C16_Witness ==
  /\ srv.pc = "done"
  /\ srv.owner = "sent"
  /\ srv.customer = "failed"
  /\ resp.status = 201
  /\ Len(orders) = 1

\* ------------------------------------------------------- checkout claims
Awaiting == sub.pc \in {"sent", "processing"}

\* an order with the lines of the submitted request has been persisted
SubmittedOrderPersisted ==
  \E k \in 1..Len(orders) :
    /\ Len(orders[k].items) = Len(sub.body.items)
    /\ \A i \in 1..Len(sub.body.items) :
         /\ orders[k].items[i].book = sub.body.items[i].bookId
         /\ orders[k].items[i].quantity = sub.body.items[i].quantity

\* C5: the checkout clears the cart and schedules the navigation to the
\* confirmation only after createOrder returned a success with data; while
\* the request is awaited and after a rejection, a transport failure or a
\* thrown error the cart is exactly what it was before the submission.
C5_ClearOnlyAfterSuccess ==
  /\ sub.outcome \in {"rejected", "transport", "thrown"} =>
       (Current = sub.before /\ navTimer = NoId /\ page = "checkout")
  /\ Awaiting => (Current = sub.before /\ navTimer = NoId)
  /\ op.name = "clearCart" => sub.outcome = "success"
  /\ navTimer # NoId =>
       (sub.outcome = "success" /\ Len(items) = 0
          /\ \E k \in 1..Len(orders) : orders[k].orderId = navTimer)
  /\ sub.outcome = "success" => SubmittedOrderPersisted

C5_Witness ==
  /\ sub.outcome = "rejected"
  /\ ~isSubmitting
  /\ Len(items) = 2
  /\ "submit" \in DOMAIN errors

\* C17: every submission that has been started is eventually settled by the
\* client (success, rejection or transport failure), with the form
\* submittable again, whatever the server and the network do.
C17_SubmissionCompletes ==
  Awaiting ~> (sub.pc = "settled" /\ ~isSubmitting)

\* C26: nothing deduplicates submissions. After a transport failure the
\* form can be submitted again with the same cart, and every save the
\* database carries out appends a new order under a fresh orderId with the
\* lines and total of its own request, also when an order with the same
\* content is already stored.
C26_RetryDuplicates ==
  /\ [](sub.outcome = "transport" =>
          (~isSubmitting /\ Current = sub.before /\ page = "checkout"))
  /\ [][(srv.pc = "save" /\ srv'.pc = "notifyOwner") =>
          /\ Len(orders') = Len(orders) + 1
          /\ SubSeq(orders', 1, Len(orders)) = orders
          /\ orders'[Len(orders')].orderId \notin UsedOrderIds
          /\ orders'[Len(orders')].items = srv.processedItems
          /\ orders'[Len(orders')].totalPrice = srv.calculatedTotal]_vars

\* the cart is cleared by a success, so the first of two orders stems from
\* an attempt that did not end in one
C26_Witness ==
  /\ Len(orders) = 2
  /\ sub.outcome = "success"
  /\ orders[1].items = orders[2].items
  /\ orders[1].totalPrice = orders[2].totalPrice
  /\ orders[1].orderId # orders[2].orderId
  /\ navTimer = orders[2].orderId

Ok(status) == status >= 200 /\ status < 300

\* C28: apiRequest turns a network error, an unparsable body and a non-2xx
\* status into a failure result and returns success only for a 2xx
\* response; handleSubmit ends every attempt that is not a success, a
\* throw of its own included, with the submit error shown, the form
\* enabled again and the cart and page untouched.
C28_FailuresBecomeSubmitError ==
  /\ [](Responded => (ApiResult(resp).success <=> Ok(resp.status)))
  /\ [](~NetworkFailure.success)
  /\ [][(sub.pc \in {"sent", "processing"} /\ sub'.pc = "settled") =>
          /\ ~isSubmitting'
          /\ sub'.outcome \in {"success", "rejected", "transport"}
          /\ sub'.outcome = "success" <=>
               (link = "open" /\ Responded /\ Ok(resp.status) /\ link' = "none")
          /\ sub'.outcome = "rejected" =>
               (link = "open" /\ Responded /\ ~Ok(resp.status))
          /\ sub'.outcome # "success" =>
               /\ errors' = SubmitError
               /\ CartUnchanged
               /\ page' = page
               /\ navTimer' = navTimer]_vars
  /\ [][sub'.outcome = "thrown" =>
          (errors' = SubmitError /\ ~isSubmitting' /\ page' = page)]_vars

C28_Witness ==
  /\ sub.outcome = "transport"
  /\ errors = SubmitError
  /\ ~isSubmitting
  /\ Len(orders) = 1
  /\ Responded
  /\ resp.status = 201
  /\ Current = sub.before

\* C29: after a success carrying an orderId the client ends up on the
\* confirmation view of that orderId and navigates no further, although the
\* cleared cart sends the checkout page to the home page first.
C29_ConfirmationIsFinal ==
  /\ [](navTimer # NoId =>
          /\ sub.outcome = "success"
          /\ \E k \in 1..Len(orders) : orders[k].orderId = navTimer)
  /\ \A id \in OrderIds : (navTimer = id) ~> (page = ConfirmationUrl(id))
  /\ [][\A id \in OrderIds :
          page = ConfirmationUrl(id) => page' = page]_vars

C29_Witness ==
  /\ page = "home"
  /\ navTimer # NoId
  /\ navTimer = orders[Len(orders)].orderId
  /\ sub.outcome = "success"
  /\ Len(items) = 0

\* C30: one checkout page has at most one createOrder request pending:
\* isSubmitting is true exactly while a request is awaited, handleSubmit
\* runs only when none is, sets the flag when it sends, and every outcome
\* leaves the flag reset.
C30_SingleFlight ==
  /\ [](Awaiting <=> isSubmitting)
  /\ [](sub.pc = "settled" => ~isSubmitting)
  /\ [][HandleSubmit =>
          /\ ~Awaiting
          /\ (sub'.pc = "sent") <=> isSubmitting']_vars

C30_Witness ==
  /\ sub.pc = "processing"
  /\ isSubmitting
  /\ Len(orders) = 1
  /\ srv.pc = "lookup"
  /\ page = "checkout"

\* ----------------------------------------------------------- form claims
Invalid(form) == {f \in RequiredFields : validateField(f, form[f]) # ""}

\* C18: a submission validates all four required fields: the error map it
\* sets has an entry, with the field's message, for exactly the invalid
\* ones; the form counts as valid iff that map is empty; and an invalid
\* form issues no createOrder request.
C18_FormValidation ==
  [][HandleSubmit =>
       LET invalid == Invalid(formData) IN
       /\ (DOMAIN validateForm(formData) = {}) <=> (invalid = {})
       /\ invalid # {} =>
            /\ DOMAIN errors' = invalid
            /\ \A f \in invalid : errors'[f] = validateField(f, formData[f])
            /\ sub'.pc = "settled"
            /\ sub'.outcome = "invalid"
            /\ ~isSubmitting'
       /\ invalid = {} =>
            /\ errors' \in {NoErrors, SubmitError}
            /\ sub'.outcome # "invalid"
       /\ sub'.pc = "sent" => invalid = {}]_vars

C18_Witness ==
  /\ sub.outcome = "invalid"
  /\ DOMAIN errors = {"phone", "address"}
  /\ Invalid(formData) = {"phone", "address"}

DigitCount(s) == Cardinality({i \in 1..Len(s) : s[i] \in Digit})

\* only digits, separators, parentheses and a + that can only lead, with
\* between 7 and maxDigits digits
PhoneShape(s, maxDigits) ==
  /\ \A i \in 1..Len(s) : s[i] \in Digit \cup Separator \cup {"+", "(", ")"}
  /\ \A i \in 2..Len(s) : s[i] # "+"
  /\ DigitCount(s) >= 7
  /\ DigitCount(s) <= maxDigits

\* an optional + followed by digits only
PlainNumber(s) ==
  /\ s # <<>>
  /\ \A i \in 1..Len(s) : s[i] \in Digit \/ (i = 1 /\ s[i] = "+")

\* local@domain.tld: no whitespace, one @ after a non-empty local part, and
\* after it a dot with something on both sides
EmailShape(s) ==
  /\ \A i \in 1..Len(s) : s[i] \notin Whitespace
  /\ Cardinality({i \in 1..Len(s) : s[i] = "@"}) = 1
  /\ \E i \in 2..Len(s) :
       /\ s[i] = "@"
       /\ \E j \in (i + 2)..(Len(s) - 1) : s[j] = "."

RequiredMessages ==
  {"Name is required", "Phone number is required", "Email is required",
   "Address is required"}

Accepts(name, value) == validateField(name, value) = ""

\* what the validators accept, for the values of the form, with the phone's
\* digits limited to maxDigits
ValidatorsAccept(maxDigits) ==
  /\ Accepts("name", formData.name) <=> Len(trim(formData.name)) >= 2
  /\ Accepts("address", formData.address) <=> Len(trim(formData.address)) >= 10
  /\ Accepts("phone", formData.phone) =>
       PhoneShape(trim(formData.phone), maxDigits)
  /\ PlainNumber(trim(formData.phone)) =>
       (Accepts("phone", formData.phone) <=>
          PhoneShape(trim(formData.phone), maxDigits))
  /\ Accepts("email", formData.email) <=> EmailShape(trim(formData.email))
  /\ \A f \in RequiredFields :
       trim(formData[f]) = <<>> => validateField(f, formData[f]) \in RequiredMessages
  /\ Accepts("phone", ValidForm.phone)
  /\ ~Accepts("phone", <<"a", "b", "c">>)
  /\ Accepts("email", <<"a", "@", "b", ".", "c", "o", "m">>)
  /\ ~Accepts("email", <<"a", "@", "b">>)
  /\ ~Accepts("address", Filled(9))
  /\ Accepts("address", Filled(10))

C23_RequestShape ==
  [][HandleSubmit =>
       /\ sub'.pc = "sent" =>
            /\ Len(sub'.body.items) = Len(items)
            /\ \A i \in 1..Len(items) :
                 /\ DOMAIN sub'.body.items[i] = {"bookId", "quantity"}
                 /\ sub'.body.items[i].bookId = ResolveId(items[i].book)
                 /\ sub'.body.items[i].bookId # NoId
                 /\ sub'.body.items[i].quantity = items[i].quantity
            /\ sub'.body.totalPrice = totalPrice
            /\ isSubmitting'
       /\ (\E i \in 1..Len(items) :
             ~items[i].hasBook \/ ResolveId(items[i].book) = NoId) =>
            /\ sub'.pc = "settled"
            /\ sub'.outcome \in {"thrown", "invalid"}
            /\ sub'.outcome = "thrown" => errors' = SubmitError
            /\ ~isSubmitting'
            /\ link' = "none"]_vars

C23_Witness ==
  /\ sub.pc = "sent"
  /\ Len(sub.body.items) = 2
  /\ sub.body.items[1].bookId = "B2"
  /\ sub.body.items[2].bookId = "B1"
  /\ sub.body.totalPrice = totalPrice

C23_WitnessLocalFailure ==
  /\ sub.outcome = "thrown"
  /\ Len(items) = 2
  /\ IsValidItem(items[1])
  /\ ~items[2].hasBook

\* ------------------------------------------------------- response claims
\* the request failed the validation middleware or one of the controller's
\* own request checks
RequestInvalid ==
  \/ ValidationErrors(srv.body) # {}
  \/ BadRequest(srv.body)

ValidationFailures ==
  {"Validation failed", "Invalid order items", "Invalid total price",
   "Invalid item data", "Validation error"}

\* the lookup the handler stopped at found no book
StoppedAtUnresolvable ==
  /\ ~RequestInvalid
  /\ Len(srv.processedItems) < Len(srv.body.items)
  /\ ~Found(srv.body.items[Len(srv.processedItems) + 1].bookId)

C24_OrderImmutable ==
  [][/\ Len(orders') >= Len(orders)
     /\ \A k \in 1..Len(orders) : orders'[k] = orders[k]]_vars

C24_Witness ==
  /\ Len(orders) = 2
  /\ srv.pc = "fetched"
  /\ resp.status = 200
  /\ resp.orderId = orders[1].orderId
  /\ \E i \in 1..Len(orders[1].items) :
       orders[1].items[i].price # catalog[orders[1].items[i].book].price

\* C25: the two notifications that follow the save are isolated: when the
\* request is answered both have been attempted, each with its own outcome,
\* whatever the outcome of the other.
C25_NotificationsIsolated ==
  (Responded /\ resp.status = 201) =>
     /\ srv.owner \in {"sent", "failed"}
     /\ srv.customer \in {"sent", "failed"}

\* ----------------------------------------------------- persistence claims
CartMutation == AddToCart \/ RemoveFromCart \/ UpdateQuantity \/ ClearCart

\* what a persisted entry holds beyond identity and quantity
StoresBookSnapshot(entry) == entry.hasBook /\ "price" \in DOMAIN entry.book

\* C21: after every cart mutation that writes, the persisted snapshot has one
\* entry per cart item, in order, with the item's identifier and quantity
\* and nothing of the book besides (no price), and it holds no totals.
C21_PersistedProjection ==
  [][CartMutation /\ storage' # storage =>
       /\ Len(storage'.items) = Len(items')
       /\ \A i \in 1..Len(items') :
            /\ ResolveId(storage'.items[i].book) = ResolveId(items'[i].book)
            /\ storage'.items[i].quantity = items'[i].quantity
            /\ ~StoresBookSnapshot(storage'.items[i])
       /\ DOMAIN storage' \cap {"totalItems", "totalPrice"} = {}]_vars

\* ------------------------------------------------------------- tab claims
NoEventPending == ~otherTab.event /\ ~otherTab.activeEvent

\* C20: two tabs on the same persisted cart converge: once every storage
\* event of the writes made so far has been dispatched, both tabs hold the
\* items of the persisted store, those of the last write.
C20_TabsConverge ==
  NoEventPending =>
    /\ partialize(items) = storage.items
    /\ partialize(otherTab.items) = storage.items

====
